---- MODULE Spec2Model ----
(***************************************************************************)
(* Model of astromap's constellation segmentation (astromap/segment.py):   *)
(* the BrightEdge ordering, SkySegmenter._gen_edges and the greedy loop of *)
(* SkySegmenter.segment, over catalogs of BrightStar entries, and of the   *)
(* ingestion of catalog rows (astromap/star.py star_from_catalog and       *)
(* astromap/catalog.py BrightStarCatalog).                                 *)
(*                                                                         *)
(* Numbers.  Magnitudes are whole numbers.  Every star lies on the         *)
(* meridian azimuth = 0 and its zenith is a whole number of quarter        *)
(* radians, so that the distance computed by _gen_edges,                   *)
(*   arccos(sin z1 sin z2 + cos z1 cos z2 cos 0) = |z1 - z2|,              *)
(* is |zu - zv| / 4 and the brightness                                     *)
(*   (mu + 1.5 + mv + 1.5) ^ 2.0 + (distance ^ 2.0) * 16.0                 *)
(* is the whole number (mu + mv + 3)^2 + (zu - zv)^2.                      *)
(* Array positions are 0-based as in the source.                           *)
(***************************************************************************)
EXTENDS Integers, Sequences, FiniteSets, TLC

VARIABLES
    table,          \* the rows the catalog was built from
    catalog,        \* BrightStarCatalog: its stars in iteration order
    pc,             \* "new" | "loop" | "done" | "raised" (segment raised)
                    \*   | "catalog_raised" (BrightStarCatalog() raised)
    max_magnitude,  \* argument of the running / last segment call
    numbers,        \* self._numbers
    edges,          \* self._edges: cell <<u, v>> -> BrightEdge or None
    groups,         \* self._groups: sequence of sets of <<u, v>>
    members,        \* self._members: star position -> group index
    lonely_stars,   \* local lonely_stars of segment
    brightest,      \* local brightest of the last iteration (<<>> before one)
    decided,        \* cells selected so far in this run, in order
    previous        \* outcome of the call before this one (SpecTwice only)

vars == <<table, catalog, pc, max_magnitude, numbers, edges, groups, members,
          lonely_stars, brightest, decided, previous>>

----------------------------------------------------------------------------
(* Bounds and input domains *)

MaxStars == 5

Magnitudes == {0, 1, 3}

Zeniths == {0, 1}

MaxMagnitudes == {0, 1}

\* SpecTwice: at most this many rows, on a wider range of zeniths
MaxWide == 4

WideMagnitudes == {0, 1}

WideZeniths == {0, 1, 3}

\* SpecIngest: at most this many rows, malformed ones among them
MaxRows == 3

----------------------------------------------------------------------------
(* Python values *)

\* None, for the int/float-or-None fields (real values are all >= 0)
None == -1

\* None as an element of the edges array (a cell that holds no BrightEdge)
NoneCell == [none |-> TRUE]

BrightStar(number, magnitude, zenith) ==
    [number |-> number, magnitude |-> magnitude, zenith |-> zenith]

BrightEdge(index, stars, brightness, now_bright) ==
    [index |-> index, stars |-> stars, brightness |-> brightness,
     now_bright |-> now_bright, rival |-> None, rival_brightness |-> None,
     group |-> None]

----------------------------------------------------------------------------
(* BrightEdge comparisons; self is a BrightEdge, other a BrightEdge or None *)

\* __lt__ with a processed edge (score None) ordered first instead of last
BrightEdge__lt__NoneFirst(self, other) ==
    IF other = NoneCell THEN TRUE
    ELSE IF self.now_bright = None THEN TRUE
    ELSE IF other.now_bright = None THEN FALSE
    ELSE self.now_bright < other.now_bright

\* __lt__ comparing the scores with <= instead of <
BrightEdge__lt__OrEqual(self, other) ==
    IF other = NoneCell THEN TRUE
    ELSE IF self.now_bright = None THEN FALSE
    ELSE IF other.now_bright = None THEN TRUE
    ELSE self.now_bright <= other.now_bright

\* __lt__ comparing the scores with > instead of <
BrightEdge__lt__Reversed(self, other) ==
    IF other = NoneCell THEN TRUE
    ELSE IF self.now_bright = None THEN FALSE
    ELSE IF other.now_bright = None THEN TRUE
    ELSE self.now_bright > other.now_bright

BrightEdge__lt__(self, other) ==
    IF other = NoneCell THEN TRUE
    ELSE IF self.now_bright = None THEN FALSE
    ELSE IF other.now_bright = None THEN TRUE
    ELSE self.now_bright < other.now_bright

BrightEdge__gt__(self, other) ==
    IF other = NoneCell THEN FALSE
    ELSE IF other.now_bright = None THEN FALSE
    ELSE IF self.now_bright = None THEN TRUE
    ELSE self.now_bright > other.now_bright

\* __le__ testing self's score for None before other's
BrightEdge__le__SelfFirst(self, other) ==
    IF other = NoneCell THEN TRUE
    ELSE IF self.now_bright = None THEN FALSE
    ELSE IF other.now_bright = None THEN TRUE
    ELSE self.now_bright <= other.now_bright

BrightEdge__le__(self, other) ==
    IF other = NoneCell THEN TRUE
    ELSE IF other.now_bright = None THEN TRUE
    ELSE IF self.now_bright = None THEN FALSE
    ELSE self.now_bright <= other.now_bright

BrightEdge__ge__(self, other) ==
    IF other = NoneCell THEN FALSE
    ELSE IF self.now_bright = None THEN TRUE
    ELSE IF other.now_bright = None THEN FALSE
    ELSE self.now_bright >= other.now_bright

BrightEdge__eq__(self, other) ==
    IF other = NoneCell THEN FALSE
    ELSE self.now_bright = other.now_bright

\* Python's  val < mp  on array elements: val.__lt__(mp) when val is a
\* BrightEdge; None has no __lt__, so None < edge is the reflected
\* edge.__gt__(None); None < None raises TypeError (see PyLessRaises).
PyLess(val, mp) ==
    IF val # NoneCell THEN BrightEdge__lt__(val, mp)
    ELSE IF mp # NoneCell THEN BrightEdge__gt__(mp, val)
    ELSE FALSE

PyLessRaises(val, mp) == val = NoneCell /\ mp = NoneCell

----------------------------------------------------------------------------
(* star_from_catalog and BrightStarCatalog.__init__                        *)
(* A row is its length, the text of its number field row[0:4], the text of *)
(* its magnitude field row[102:107] (standing for all the fields parsed    *)
(* inside the try block) and the zenith its coordinate fields convert to.  *)

\* len(row) < 170
MinRowLength == 170

NOT_STARS == {92, 95, 182, 1057, 1841, 2472, 2496, 3515, 3671, 6309, 6515,
              7189, 7539, 8296}

\* number fields that int(..., base=10) parses, by value - 1 (the last: 92)
NumberTexts == <<"   1", "   2", "   3", "   4", "   5", "   6", "   7", "  92">>

\* int(row[0:4], base=10) raises ValueError
IntRaises(text) == \A i \in 1..Len(NumberTexts) : NumberTexts[i] # text

\* int(row[0:4], base=10)
ParseInt(text) ==
    LET i == CHOOSE i \in 1..Len(NumberTexts) : NumberTexts[i] = text
    IN  IF i = Len(NumberTexts) THEN 92 ELSE i

\* float(row[102:107]) raises ValueError
FloatRaises(text) == text \notin {" 0.00", " 1.00", " 3.00"}

\* float(row[102:107])
ParseFloat(text) ==
    CASE text = " 0.00" -> 0
      [] text = " 1.00" -> 1
      [] text = " 3.00" -> 3

Row(length, number, magnitude, zenith) ==
    [length |-> length, number |-> number, magnitude |-> magnitude,
     zenith |-> zenith]

\* star_from_catalog(row) raises: the number is parsed outside the try block
StarFromCatalogRaises(row) ==
    /\ ~(row.length < MinRowLength)
    /\ IntRaises(row.number)

\* star_from_catalog(row) returns None (row skipped); for rows that do not raise
StarFromCatalogNone(row) ==
    \/ row.length < MinRowLength
    \/ ParseInt(row.number) \in NOT_STARS
    \/ FloatRaises(row.magnitude)

\* the BrightStar star_from_catalog(row) returns otherwise
StarFromCatalog(row) ==
    BrightStar(ParseInt(row.number), ParseFloat(row.magnitude), row.zenith)

\* BrightStarCatalog(table) raises
CatalogRaises(tbl) == \E k \in 1..Len(tbl) : StarFromCatalogRaises(tbl[k])

\* self._stars after "self._stars[star.number] = star" for every row: a dict
\* keeps the position of a key's first insertion and the value of its last
CatalogStars(tbl) ==
    LET Store(stars, star) ==
            IF \E j \in 1..Len(stars) : stars[j].number = star.number
            THEN [j \in 1..Len(stars) |->
                     IF stars[j].number = star.number THEN star ELSE stars[j]]
            ELSE Append(stars, star)
        RECURSIVE Load(_)
        Load(k) == IF k = 0 THEN <<>>
                   ELSE IF StarFromCatalogNone(tbl[k]) THEN Load(k - 1)
                   ELSE Store(Load(k - 1), StarFromCatalog(tbl[k]))
    IN  Load(Len(tbl))

\* the text of a magnitude field
MagnitudeText(m) == CASE m = 0 -> " 0.00" [] m = 1 -> " 1.00" [] m = 3 -> " 3.00"

\* tables of up to n well-formed rows numbered 1, 2, ... in row order
\* (as the rows of the Yale catalog are)
WellFormedTables(n, mags, zens) ==
    UNION {{[i \in 1..k |-> Row(MinRowLength, NumberTexts[i],
                                MagnitudeText(f[i][1]), f[i][2])] :
                f \in [1..k -> mags \X zens]} : k \in 0..n}

\* rows for SpecIngest: well-formed rows with numbers 1 and 2, a row listed
\* in NOT_STARS, rows one character short, a row with an unparsable
\* magnitude and a row with an unparsable (blank) number
IngestRows ==
    {Row(MinRowLength, n, m, z) :
        n \in {"   1", "   2"}, m \in {" 0.00", " 1.00"}, z \in Zeniths}
    \cup {Row(MinRowLength, "  92", " 0.00", 0),
          Row(MinRowLength - 1, "   1", " 0.00", 0),
          Row(MinRowLength - 1, "    ", " 0.00", 0),
          Row(MinRowLength, "   2", "     ", 0),
          Row(MinRowLength, "    ", " 0.00", 0)}

IngestTables == UNION {[1..k -> IngestRows] : k \in 0..MaxRows}

----------------------------------------------------------------------------
(* SkySegmenter._gen_edges *)

\* coords[:, 0] raises IndexError: np.array of an empty list of rows is
\* 1-dimensional (shape (0,)), and it is indexed with two indices
GenEdgesRaises(stars) == Len(stars) = 0

\* the filter with < in place of <=
BelowMagnitudeStrict(cat, max_mag) ==
    LET RECURSIVE Keep(_)
        Keep(k) == IF k = 0 THEN <<>>
                   ELSE IF cat[k].magnitude < max_mag
                        THEN Append(Keep(k - 1), cat[k])
                        ELSE Keep(k - 1)
    IN  Keep(Len(cat))

\* the list comprehension of _gen_edges: catalog stars with
\* star.magnitude <= max_magnitude, in catalog order
BelowMagnitude(cat, max_mag) ==
    LET RECURSIVE Keep(_)
        Keep(k) == IF k = 0 THEN <<>>
                   ELSE IF cat[k].magnitude <= max_mag
                        THEN Append(Keep(k - 1), cat[k])
                        ELSE Keep(k - 1)
    IN  Keep(Len(cat))

\* sorted(..., key=attrgetter("magnitude")): ascending, stable
SortedByMagnitude(s) ==
    LET Insert(sorted, x) ==
            LET before == Cardinality({k \in 1..Len(sorted) :
                                         sorted[k].magnitude <= x.magnitude})
            IN  SubSeq(sorted, 1, before) \o <<x>>
                    \o SubSeq(sorted, before + 1, Len(sorted))
        RECURSIVE Sort(_)
        Sort(k) == IF k = 0 THEN <<>> ELSE Insert(Sort(k - 1), s[k])
    IN  Sort(Len(s))

\* distances[u, v] in quarter radians (see the header: azimuth 0)
Distance(a, b) == IF a.zenith >= b.zenith THEN a.zenith - b.zenith
                  ELSE b.zenith - a.zenith

\* brights[u, v] = (mag_u + 1.5 + mag_v + 1.5) ^ 2 + (distance ^ 2) * 16
Brights(a, b) ==
    LET pairwise_magnitude == a.magnitude + b.magnitude + 3
    IN  pairwise_magnitude * pairwise_magnitude + Distance(a, b) * Distance(a, b)

\* the filtered, sorted stars that positions 0 .. count - 1 refer to
GenStars(cat, max_mag) == SortedByMagnitude(BelowMagnitude(cat, max_mag))

\* numbers: catalog number by position
GenNumbers(stars) == [u \in 0..(Len(stars) - 1) |-> stars[u + 1].number]

\* the count x count object array: a BrightEdge where u < v, else None
GenEdges(stars) ==
    LET count == Len(stars)
    IN  [c \in (0..(count - 1)) \X (0..(count - 1)) |->
            IF c[1] < c[2]
            THEN BrightEdge(c, <<stars[c[1] + 1].number, stars[c[2] + 1].number>>,
                            Brights(stars[c[1] + 1], stars[c[2] + 1]),
                            Brights(stars[c[1] + 1], stars[c[2] + 1]))
            ELSE NoneCell]

----------------------------------------------------------------------------
(* np.unravel_index(np.argmin(edges), edges.shape) on the object array *)

\* np.unravel_index: flat index k of a count x count array, row-major
Unravel(k, count) == <<k \div count, k % count>>

\* argmin over an object array: mp starts as element 0, and each later element
\* val replaces it when  val < mp  (so the first of equal minima is kept)
ArgMinFlat(arr, count) ==
    LET RECURSIVE Scan(_, _)
        Scan(k, min_ind) ==
            IF k >= count * count THEN min_ind
            ELSE IF PyLess(arr[Unravel(k, count)], arr[Unravel(min_ind, count)])
                 THEN Scan(k + 1, k)
                 ELSE Scan(k + 1, min_ind)
    IN  Scan(1, 0)

\* the scan compares None with None (TypeError) when a None element is met
\* while mp is still the None of element 0
ArgMinRaises(arr, count) ==
    \E k \in 1..(count * count - 1) :
        /\ PyLessRaises(arr[Unravel(k, count)], arr[Unravel(0, count)])
        /\ \A j \in 1..(k - 1) : arr[Unravel(j, count)] = NoneCell

ArgMin(arr, count) == Unravel(ArgMinFlat(arr, count), count)

----------------------------------------------------------------------------
(* SkySegmenter.segment *)

Count == Cardinality(DOMAIN numbers)

\* group_index taken from the first endpoint alone
GroupIndexFirstOnly(mem, cell) ==
    IF cell[1] \in DOMAIN mem THEN mem[cell[1]] ELSE None

\* group_index after the loop "for i in brightest" of lines 132-143
GroupIndex(mem, cell) ==
    LET first == IF cell[1] \in DOMAIN mem THEN mem[cell[1]] ELSE None
    IN  IF cell[2] \in DOMAIN mem THEN mem[cell[2]] ELSE first

\* separate_groups with the group ids compared by == instead of !=
SeparateGroupsInverted(mem, cell) ==
    /\ cell[1] \in DOMAIN mem
    /\ cell[2] \in DOMAIN mem
    /\ mem[cell[1]] = mem[cell[2]]

\* separate_groups with group_index overwritten before it is compared
SeparateGroupsOverwritten(mem, cell) ==
    /\ cell[1] \in DOMAIN mem
    /\ cell[2] \in DOMAIN mem
    /\ mem[cell[2]] # mem[cell[2]]

\* separate_groups after the same loop
SeparateGroups(mem, cell) ==
    /\ cell[1] \in DOMAIN mem
    /\ cell[2] \in DOMAIN mem
    /\ mem[cell[1]] # mem[cell[2]]

\* the membership index rebuilt from the two endpoints alone
AssignMembersOnly(mem, cell, group_index) ==
    [i \in {cell[1], cell[2]} |-> group_index]

\* self._members after "self._members[i] = group_index" for both i
AssignMembers(mem, cell, group_index) ==
    [i \in DOMAIN mem \cup {cell[1], cell[2]} |->
        IF i \in {cell[1], cell[2]} THEN group_index ELSE mem[i]]

\* the edge added to the first group whatever group_index is
AddToGroupFirst(grps, cell, group_index) ==
    IF group_index = None
    THEN Append(grps, {cell})
    ELSE [grps EXCEPT ![1] = @ \cup {cell}]

\* self._groups after lines 148-154
AddToGroup(grps, cell, group_index) ==
    IF group_index = None
    THEN Append(grps, {cell})
    ELSE [grps EXCEPT ![group_index + 1] = @ \cup {cell}]

\* the new group's id read after the append instead of before it
AcceptedGroupAfterAppend(grps, group_index) ==
    IF group_index = None THEN Len(grps) + 1 ELSE group_index

\* lonely_stars with only the first endpoint discarded
DiscardLonelyFirst(lonely, cell) == lonely \ {cell[1]}

\* lonely_stars after "lonely_stars.discard(i)" for both i
DiscardLonely(lonely, cell) == lonely \ {cell[1], cell[2]}

\* the value written to edge.group (line 155)
AcceptedGroup(grps, group_index) ==
    IF group_index = None THEN Len(grps) ELSE group_index

\* no call before this one
NoRun == [pc |-> "new"]

\* the state after BrightStarCatalog(table) and SkySegmenter(catalog)
InitFrom(tables) ==
    /\ table \in tables
    /\ catalog = IF CatalogRaises(table) THEN <<>> ELSE CatalogStars(table)
    /\ pc = IF CatalogRaises(table) THEN "catalog_raised" ELSE "new"
    /\ max_magnitude = None
    /\ numbers = <<>>
    /\ edges = <<>>
    /\ groups = <<>>
    /\ members = <<>>
    /\ lonely_stars = {}
    /\ brightest = <<>>
    /\ decided = <<>>
    /\ previous = NoRun

Init == InitFrom(WellFormedTables(MaxStars, Magnitudes, Zeniths))

\* segment without "self._groups = []"
SegmentKeepsGroups(max_mag) ==
    /\ pc \in {"new", "done", "raised"}
    /\ max_magnitude' = max_mag
    /\ brightest' = <<>>
    /\ decided' = <<>>
    /\ \E stars \in {GenStars(catalog, max_mag)} :
          IF GenEdgesRaises(stars)
          THEN /\ pc' = "raised"
               /\ lonely_stars' = {}
               /\ UNCHANGED <<numbers, edges, groups, members>>
          ELSE /\ numbers' = GenNumbers(stars)
               /\ edges' = GenEdges(stars)
               /\ groups' = groups
               /\ members' = <<>>
               /\ lonely_stars' = 0..(Len(stars) - 1)
               /\ pc' = "loop"
    /\ UNCHANGED <<table, catalog>>

\* segment(max_magnitude) up to the first test of the while loop (which
\* passes whenever _gen_edges returns: count > 0 then)
Segment(max_mag) ==
    /\ pc \in {"new", "done", "raised"}
    /\ max_magnitude' = max_mag
    /\ brightest' = <<>>
    /\ decided' = <<>>
    /\ \E stars \in {GenStars(catalog, max_mag)} :
          IF GenEdgesRaises(stars)
          THEN /\ pc' = "raised"
               /\ lonely_stars' = {}
               /\ UNCHANGED <<numbers, edges, groups, members>>
          ELSE /\ numbers' = GenNumbers(stars)
               /\ edges' = GenEdges(stars)
               /\ groups' = <<>>
               /\ members' = <<>>
               /\ lonely_stars' = 0..(Len(stars) - 1)
               /\ pc' = "loop"
    /\ UNCHANGED <<table, catalog>>

\* one iteration of the while loop, and the loop test that follows it
Step ==
    /\ pc = "loop"
    /\ IF ArgMinRaises(edges, Count)
       THEN /\ pc' = "raised"
            /\ UNCHANGED <<edges, groups, members, lonely_stars, brightest, decided>>
       ELSE \E cell \in {ArgMin(edges, Count)} :
            \E group_index \in {GroupIndex(members, cell)} :
                /\ brightest' = cell
                /\ decided' = Append(decided, cell)
                /\ IF edges[cell] = NoneCell
                   THEN \* edge.now_bright = None on None: AttributeError
                        /\ pc' = "raised"
                        /\ UNCHANGED <<edges, groups, members, lonely_stars>>
                   ELSE IF SeparateGroups(members, cell)
                   THEN /\ edges' = [edges EXCEPT ![cell].now_bright = None]
                        /\ UNCHANGED <<groups, members, lonely_stars>>
                        /\ pc' = "loop"
                   ELSE /\ edges' = [edges EXCEPT
                                       ![cell].now_bright = None,
                                       ![cell].group = AcceptedGroup(groups, group_index)]
                        /\ groups' = AddToGroup(groups, cell, group_index)
                        /\ members' = AssignMembers(members, cell,
                                          AcceptedGroup(groups, group_index))
                        /\ lonely_stars' = DiscardLonely(lonely_stars, cell)
                        /\ pc' = IF Cardinality(DiscardLonely(lonely_stars, cell)) > 0
                                 THEN "loop" ELSE "done"
    /\ UNCHANGED <<table, catalog, max_magnitude, numbers, previous>>

Next ==
    \/ \E max_mag \in MaxMagnitudes : Segment(max_mag) /\ UNCHANGED previous
    \/ Step

Spec == Init /\ [][Next]_vars

\* the outcome of the call that a new call replaces
Outcome ==
    IF pc \in {"done", "raised"}
    THEN [pc |-> pc, max_magnitude |-> max_magnitude, groups |-> groups,
          members |-> members]
    ELSE previous

\* the same calls, each remembering the outcome of the call before it
NextTwice ==
    \/ \E max_mag \in MaxMagnitudes : Segment(max_mag) /\ previous' = Outcome
    \/ Step

SpecTwice ==
    /\ InitFrom(WellFormedTables(MaxWide, WideMagnitudes, WideZeniths))
    /\ [][NextTwice]_vars

\* catalogs built from tables with malformed and repeated rows
SpecIngest == InitFrom(IngestTables) /\ [][Next]_vars

----------------------------------------------------------------------------
(* Vocabulary of the properties *)

\* cells of the array that hold a BrightEdge
EdgeCells(arr) == {c \in DOMAIN arr : arr[c] # NoneCell}

\* edges not yet processed: current score still present
Unprocessed(arr) == {c \in EdgeCells(arr) : arr[c].now_bright # None}

\* star positions touched by a set of edge indices
StarsOf(E) == UNION {{c[1], c[2]} : c \in E}

\* the edge set E, as a graph on the stars it touches, is connected
Connected(E) ==
    \/ E = {}
    \/ LET V == StarsOf(E)
           RECURSIVE Grow(_)
           Grow(R) ==
               LET R2 == R \cup {x \in V : \E c \in E :
                                     \/ c[1] \in R /\ c[2] = x
                                     \/ c[2] \in R /\ c[1] = x}
               IN  IF R2 = R THEN R ELSE Grow(R2)
       IN  Grow({CHOOSE x \in V : TRUE}) = V

\* this transition is one iteration of the loop, and it selected brightest'
IsStep == pc = "loop" /\ decided' = Append(decided, brightest')

\* ... and the selected cell holds an edge
IsEdgeStep == IsStep /\ edges[brightest'] # NoneCell

\* the current call got past _gen_edges: numbers, edges, groups, members and
\* lonely_stars are those of this call
InRun == pc \in {"loop", "done"} \/ (pc = "raised" /\ decided # <<>>)

\* the assigned endpoints of a cell, before the step
Assigned(cell) == {cell[1], cell[2]} \cap DOMAIN members

----------------------------------------------------------------------------
(* C1: a selected edge whose two endpoints are both in the membership      *)
(* index with different group ids is rejected: groups, membership and the  *)
(* group field of every edge, the selected one included, stay as they are. *)
C1_RejectLeavesGroupsAndMembers ==
    [][ ( /\ IsEdgeStep
          /\ brightest'[1] \in DOMAIN members
          /\ brightest'[2] \in DOMAIN members
          /\ members[brightest'[1]] # members[brightest'[2]] )
        => ( /\ groups' = groups
             /\ members' = members
             /\ edges'[brightest'].group = None
             /\ \A c \in EdgeCells(edges) : edges'[c].group = edges[c].group ) ]_vars

\* a state right after a rejection: the last selected edge is processed,
\* in no group, and joins stars of two different groups
C1_Witness ==
    /\ brightest # <<>>
    /\ edges[brightest] # NoneCell
    /\ edges[brightest].now_bright = None
    /\ edges[brightest].group = None
    /\ brightest[1] \in DOMAIN members
    /\ brightest[2] \in DOMAIN members
    /\ members[brightest[1]] # members[brightest[2]]

(* C2: in every state, two distinct groups touch disjoint sets of star     *)
(* positions.                                                              *)
C2_GroupsDisjoint ==
    \A g1, g2 \in 1..Len(groups) :
        g1 # g2 => StarsOf(groups[g1]) \cap StarsOf(groups[g2]) = {}

\* two groups exist, one of them grown beyond its first edge, after an edge
\* between them was rejected
C2_Witness ==
    /\ Len(groups) >= 2
    /\ \E g \in 1..Len(groups) : Cardinality(groups[g]) >= 2
    /\ \E c \in EdgeCells(edges) :
          /\ edges[c].now_bright = None
          /\ edges[c].group = None

(* C3: within a run, a star position in the membership index stays in it   *)
(* with the same group id at every later step.                             *)
C3_MembershipNeverChanges ==
    [][ pc = "loop" =>
          \A i \in DOMAIN members :
              i \in DOMAIN members' /\ members'[i] = members[i] ]_vars

\* a step has just re-written the entries of two stars that were already
\* members (an edge accepted inside one group)
C3_Witness ==
    /\ brightest # <<>>
    /\ edges[brightest] # NoneCell
    /\ edges[brightest].group # None
    /\ \E c \in groups[edges[brightest].group + 1] \ {brightest} :
          brightest[1] \in {c[1], c[2]}
    /\ \E c \in groups[edges[brightest].group + 1] \ {brightest} :
          brightest[2] \in {c[1], c[2]}

(* C4: an edge added to an existing group has an endpoint that was already *)
(* a member of that group; an accepted edge with two unassigned endpoints  *)
(* creates its group; and every group's edge set is a connected graph.     *)
C4_GroupsGrowConnected ==
    /\ [][ IsEdgeStep =>
             /\ \A g \in 1..Len(groups) :
                   groups'[g] # groups[g] =>
                       \E i \in Assigned(brightest') : members[i] = g - 1
             /\ (Assigned(brightest') = {} /\ edges'[brightest'].group # None)
                   => /\ Len(groups') = Len(groups) + 1
                      /\ edges'[brightest'].group = Len(groups) ]_vars
    /\ [](\A g \in 1..Len(groups) : Connected(groups[g]))

\* a group of at least three edges exists beside another group
C4_Witness ==
    /\ Len(groups) >= 2
    /\ \E g \in 1..Len(groups) : Cardinality(groups[g]) >= 3

(* C5: a selected edge with both endpoints absent from the membership      *)
(* index creates exactly one new group, whose id is the number of groups   *)
(* before the step, which holds exactly that edge, and both endpoints map  *)
(* to the new id; the existing groups are left as they were.               *)
C5_NewGroupForTwoUnassigned ==
    [][ (IsEdgeStep /\ Assigned(brightest') = {})
        => ( /\ Len(groups') = Len(groups) + 1
             /\ SubSeq(groups', 1, Len(groups)) = groups
             /\ groups'[Len(groups) + 1] = {brightest'}
             /\ edges'[brightest'].group = Len(groups)
             /\ members'[brightest'[1]] = Len(groups)
             /\ members'[brightest'[2]] = Len(groups) ) ]_vars

\* the last step created a group that is not the first one
C5_Witness ==
    /\ Len(groups) >= 2
    /\ brightest # <<>>
    /\ groups[Len(groups)] = {brightest}
    /\ members[brightest[1]] = Len(groups) - 1
    /\ members[brightest[2]] = Len(groups) - 1

(* C6: when the assigned endpoints of the selected edge all belong to one  *)
(* group g (one endpoint assigned, or both to g), the step adds the edge   *)
(* to g, creates no group, leaves the other groups unchanged and maps both *)
(* endpoints to g.                                                         *)
C6_JoinsTheEndpointsGroup ==
    [][ \A g \in 0..(Len(groups) - 1) :
          ( /\ IsEdgeStep
            /\ Assigned(brightest') # {}
            /\ \A i \in Assigned(brightest') : members[i] = g )
          => ( /\ groups' = [groups EXCEPT ![g + 1] = @ \cup {brightest'}]
               /\ brightest' \in groups'[g + 1]
               /\ edges'[brightest'].group = g
               /\ members'[brightest'[1]] = g
               /\ members'[brightest'[2]] = g ) ]_vars

\* the last step added an edge to the second group, which already had one
C6_Witness ==
    /\ Len(groups) >= 2
    /\ brightest # <<>>
    /\ brightest \in groups[2]
    /\ Cardinality(groups[2]) >= 2

(* C7: every step marks the edge it selected as processed, accepted or     *)
(* rejected; within a run a processed edge stays processed; and the        *)
(* selected edge was not processed before, so no edge is decided twice.    *)
C7_ProcessedOnceAndForAll ==
    /\ [][ IsEdgeStep =>
             /\ edges[brightest'].now_bright # None
             /\ edges'[brightest'].now_bright = None
             /\ \A c \in EdgeCells(edges) :
                   edges[c].now_bright = None => edges'[c].now_bright = None ]_vars
    /\ [](\A j, k \in 1..Len(decided) : decided[j] = decided[k] => j = k)

\* both an accepted and a rejected edge have been processed, and the run
\* went on after the rejection
C7_Witness ==
    /\ Len(decided) >= 4
    /\ \E c \in EdgeCells(edges) :
          edges[c].now_bright = None /\ edges[c].group = None
    /\ \E c \in EdgeCells(edges) :
          edges[c].now_bright = None /\ edges[c].group # None
    /\ edges[brightest].group # None

\* cell a is not after cell b in lexicographic order
LexLeq(a, b) == a[1] < b[1] \/ (a[1] = b[1] /\ a[2] <= b[2])

(* C8: a step selects an unprocessed edge whose current score is at most   *)
(* that of every other unprocessed edge, and among the unprocessed edges   *)
(* of that minimum score the lexicographically lowest (u, v); with two or  *)
(* more qualifying stars every step has an unprocessed edge to select.     *)
C8_SelectsLexFirstMinimum ==
    /\ [][ (IsStep /\ Unprocessed(edges) # {}) =>
             /\ brightest' \in Unprocessed(edges)
             /\ \A c \in Unprocessed(edges) :
                   /\ edges[brightest'].now_bright <= edges[c].now_bright
                   /\ edges[brightest'].now_bright = edges[c].now_bright
                         => LexLeq(brightest', c) ]_vars
    /\ []((pc = "loop" /\ Count >= 2) => Unprocessed(edges) # {})

\* the last step chose between equal minima (one is still unprocessed) and
\* passed over a lexicographically lower edge of higher score
C8_Witness ==
    /\ brightest # <<>>
    /\ edges[brightest] # NoneCell
    /\ \E c \in Unprocessed(edges) :
          edges[c].brightness = edges[brightest].brightness
    /\ \E c \in Unprocessed(edges) :
          /\ LexLeq(c, brightest)
          /\ edges[c].brightness > edges[brightest].brightness

(* C9: a run over N qualifying stars takes at most N * (N - 1) / 2 steps   *)
(* and never raises, also when no unprocessed edge remains while a star is *)
(* still unassigned.                                                       *)
C9_AtMostOneStepPerEdgeNoRaise ==
    /\ pc # "raised"
    /\ 2 * Len(decided) <= Count * (Count - 1)

(* C10: with exactly one qualifying star, segment completes without error  *)
(* with zero groups and an empty membership index.                         *)
C10_SingleStarCompletes ==
    (InRun /\ Count = 1) =>
        /\ pc # "raised"
        /\ groups = <<>>
        /\ members = <<>>

(* C11: when no star passes the magnitude filter (an empty catalog         *)
(* included), segment completes without error, takes no step, and yields   *)
(* zero groups and an empty membership index.                              *)
C11_NoStarCompletes ==
    (pc \in {"loop", "done", "raised"} /\ GenStars(catalog, max_magnitude) = <<>>)
        => /\ pc = "done"
           /\ decided = <<>>
           /\ groups = <<>>
           /\ members = <<>>

(* C12: a call of segment that follows a call with the same max_magnitude  *)
(* on the same segmenter ends as that call did, with identical groups and  *)
(* an identical membership index: nothing of the earlier call is carried   *)
(* over.                                                                   *)
C12_SameCallSameResult ==
    ( /\ pc \in {"done", "raised"}
      /\ previous # NoRun
      /\ previous.max_magnitude = max_magnitude )
    => ( /\ previous.pc = pc
         /\ previous.groups = groups
         /\ previous.members = members )

\* a second call with the same argument has completed with two groups
C12_Witness ==
    /\ pc = "done"
    /\ previous # NoRun
    /\ previous.max_magnitude = max_magnitude
    /\ Len(groups) >= 2

\* the cell of the edge between star positions x and y
EdgeOf(x, y) == IF x < y THEN <<x, y>> ELSE <<y, x>>

\* four stars with A-B < C-D < B-C < every other edge
FourStarScenario(a, b, c, d) ==
    /\ Count = 4
    /\ {a, b, c, d} = 0..3
    /\ edges[EdgeOf(a, b)].brightness < edges[EdgeOf(c, d)].brightness
    /\ edges[EdgeOf(c, d)].brightness < edges[EdgeOf(b, c)].brightness
    /\ \A e \in {EdgeOf(a, c), EdgeOf(a, d), EdgeOf(b, d)} :
          edges[EdgeOf(b, c)].brightness < edges[e].brightness

\* the two groups {A-B} and {C-D}, with A, B in one and C, D in the other
TwoPairs(a, b, c, d) ==
    /\ groups = <<{EdgeOf(a, b)}, {EdgeOf(c, d)}>>
    /\ members[a] = 0 /\ members[b] = 0
    /\ members[c] = 1 /\ members[d] = 1
    /\ edges[EdgeOf(b, c)].group = None

(* C13 as stated: in the four-star scenario the run ends with the groups   *)
(* {A-B} and {C-D}, and the B-C edge has been processed and rejected.      *)
C13_BridgeProcessedAndRejected ==
    (pc = "done" /\ Count = 4) =>
        \A a, b, c, d \in 0..3 :
            FourStarScenario(a, b, c, d) =>
                /\ TwoPairs(a, b, c, d)
                /\ edges[EdgeOf(b, c)].now_bright = None

(* C13 amended: in the four-star scenario the run ends after two steps     *)
(* with the groups {A-B} and {C-D}; the B-C edge is in no group and was    *)
(* never selected, so it is still unprocessed.                             *)
C13_BridgeNeverSelected ==
    (pc = "done" /\ Count = 4) =>
        \A a, b, c, d \in 0..3 :
            FourStarScenario(a, b, c, d) =>
                /\ TwoPairs(a, b, c, d)
                /\ decided = <<EdgeOf(a, b), EdgeOf(c, d)>>
                /\ edges[EdgeOf(b, c)].now_bright = edges[EdgeOf(b, c)].brightness

\* a finished run of the four-star scenario
C13_Witness ==
    /\ pc = "done"
    /\ Count = 4
    /\ \E a, b, c, d \in 0..3 : FourStarScenario(a, b, c, d)

\* rows of the catalog that pass the filter of the current call
Qualifying == {k \in 1..Len(catalog) : catalog[k].magnitude <= max_magnitude}

\* the magnitude of the catalog star with number n
MagnitudeOf(n) ==
    catalog[CHOOSE k \in 1..Len(catalog) : catalog[k].number = n].magnitude

(* C14: the positions 0 .. count - 1 stand for exactly the catalog stars   *)
(* with magnitude <= max_magnitude, each once, in ascending magnitude, and *)
(* edge (u, v) carries the catalog numbers of star u and star v.           *)
C14_PositionsFilteredAndSorted ==
    InRun =>
        /\ Count = Cardinality(Qualifying)
        /\ {numbers[u] : u \in DOMAIN numbers}
              = {catalog[k].number : k \in Qualifying}
        /\ \A u, v \in DOMAIN numbers :
              u < v => MagnitudeOf(numbers[u]) <= MagnitudeOf(numbers[v])
        /\ \A c \in EdgeCells(edges) :
              /\ edges[c].index = c
              /\ edges[c].stars = <<numbers[c[1]], numbers[c[2]]>>

\* a run in which the filter dropped a star and kept one whose magnitude is
\* max_magnitude, and the sort moved a later row before an earlier one
C14_Witness ==
    /\ InRun
    /\ Count >= 3
    /\ Cardinality(Qualifying) < Len(catalog)
    /\ \E k \in Qualifying : catalog[k].magnitude = max_magnitude
    /\ \E u, v \in DOMAIN numbers : u < v /\ numbers[u] > numbers[v]

\* the row parses into a star: long enough, its number parses and is not
\* listed in NOT_STARS, and its other fields parse
WellFormed(row) ==
    /\ row.length >= MinRowLength
    /\ ~IntRaises(row.number)
    /\ ParseInt(row.number) \notin NOT_STARS
    /\ ~FloatRaises(row.magnitude)

\* two well-formed rows of the table carry the same star number
DuplicateNumbers(tbl) ==
    \E j, k \in 1..Len(tbl) :
        /\ j < k
        /\ WellFormed(tbl[j]) /\ WellFormed(tbl[k])
        /\ tbl[j].number = tbl[k].number

(* C15: when the input holds two stars with the same identifier, a call of *)
(* segment fails with an error while the matrix is built: it never reaches *)
(* the loop or produces groups from the altered star set.                  *)
C15_DuplicatesFailFast ==
    (DuplicateNumbers(table) /\ pc \in {"loop", "done", "raised"})
        => (pc = "raised" /\ decided = <<>>)

(* C16: building the catalog never raises: malformed rows are skipped and  *)
(* every well-formed row is stored under its catalog number.               *)
C16_CatalogNeverRaises ==
    /\ pc # "catalog_raised"
    /\ \A k \in 1..Len(table) :
          WellFormed(table[k]) =>
              \E j \in 1..Len(catalog) :
                  catalog[j].number = ParseInt(table[k].number)

(* C17: every cell a step selects holds an edge, with u < v; no diagonal   *)
(* or lower-triangle cell is ever selected.                                *)
C17_SelectsOnlyEdges ==
    \A k \in 1..Len(decided) :
        /\ decided[k][1] < decided[k][2]
        /\ edges[decided[k]] # NoneCell

(* C18: on any two edges a, b the comparisons are consistent: exactly one  *)
(* of a < b, a == b, a > b holds; a <= b iff a < b or a == b; a >= b iff   *)
(* a > b or a == b; a < b iff b > a; a processed edge (no score) is        *)
(* greater than every edge with a score and equal to every processed edge. *)
C18_ComparisonsConsistent ==
    \A ca, cb \in EdgeCells(edges) :
        LET a == edges[ca]
            b == edges[cb]
            lt == BrightEdge__lt__(a, b)
            gt == BrightEdge__gt__(a, b)
            eq == BrightEdge__eq__(a, b)
        IN  /\ lt \/ eq \/ gt
            /\ ~(lt /\ eq) /\ ~(lt /\ gt) /\ ~(eq /\ gt)
            /\ BrightEdge__le__(a, b) <=> (lt \/ eq)
            /\ BrightEdge__ge__(a, b) <=> (gt \/ eq)
            /\ lt <=> BrightEdge__gt__(b, a)
            /\ (a.now_bright = None /\ b.now_bright # None) => gt
            /\ (a.now_bright = None /\ b.now_bright = None) => eq

\* two processed edges, and unprocessed edges of equal and of different score
C18_Witness ==
    /\ \E ca, cb \in EdgeCells(edges) :
          ca # cb /\ edges[ca].now_bright = None /\ edges[cb].now_bright = None
    /\ \E ca, cb \in Unprocessed(edges) :
          ca # cb /\ edges[ca].now_bright = edges[cb].now_bright
    /\ \E ca, cb \in Unprocessed(edges) :
          edges[ca].now_bright < edges[cb].now_bright

\* the cells selected so far
Decided == {decided[k] : k \in 1..Len(decided)}

(* C19: with two or more qualifying stars the run does not raise, takes at *)
(* most one step per edge, continues exactly while some star position is   *)
(* missing from the membership index, so that it ends with every position  *)
(* in it, and every edge it has not selected keeps its score and no group. *)
C19_StopsWhenAllAssigned ==
    (InRun /\ Count >= 2) =>
        /\ pc # "raised"
        /\ 2 * Len(decided) <= Count * (Count - 1)
        /\ pc = "done" => DOMAIN members = 0..(Count - 1)
        /\ pc = "loop" => DOMAIN members # 0..(Count - 1)
        /\ \A c \in EdgeCells(edges) \ Decided :
              /\ edges[c].now_bright = edges[c].brightness
              /\ edges[c].group = None

\* a finished run over five stars that rejected an edge and left edges
\* unprocessed
C19_Witness ==
    /\ pc = "done"
    /\ Count >= 5
    /\ Unprocessed(edges) # {}
    /\ \E c \in EdgeCells(edges) :
          edges[c].now_bright = None /\ edges[c].group = None

(* C20: in every state an edge's group field is g exactly when its index   *)
(* is in group g; every edge in a group is processed; no group is empty;   *)
(* the keys of the membership index are the endpoints of the accepted      *)
(* edges, and during a run they are the stars that are no longer lonely.   *)
C20_EdgesGroupsMembersAgree ==
    /\ \A c \in EdgeCells(edges) :
          /\ edges[c].group \in {None} \cup 0..(Len(groups) - 1)
          /\ \A g \in 1..Len(groups) : edges[c].group = g - 1 <=> c \in groups[g]
    /\ \A g \in 1..Len(groups) :
          /\ groups[g] # {}
          /\ \A c \in groups[g] :
                c \in EdgeCells(edges) /\ edges[c].now_bright = None
    /\ DOMAIN members = StarsOf(UNION {groups[g] : g \in 1..Len(groups)})
    /\ InRun => DOMAIN members = (0..(Count - 1)) \ lonely_stars

\* a running state with two groups, a rejected edge and a lonely star
C20_Witness ==
    /\ pc = "loop"
    /\ Len(groups) >= 2
    /\ lonely_stars # {}
    /\ \E c \in EdgeCells(edges) :
          edges[c].now_bright = None /\ edges[c].group = None

\* the cells selected so far that hold an edge, by step number
SelectedEdgeSteps == {k \in 1..Len(decided) : edges[decided[k]] # NoneCell}

(* C21: the edges selected over one run are selected in non-decreasing     *)
(* order of brightness (an edge selected at an earlier step is not         *)
(* brighter-scored than one selected later), and no iteration of the loop  *)
(* changes the brightness of any edge.                                     *)
C21_SelectedInBrightnessOrder ==
    /\ [](InRun =>
            \A i, j \in SelectedEdgeSteps :
                i < j => edges[decided[i]].brightness
                            <= edges[decided[j]].brightness)
    /\ [][pc = "loop" =>
            /\ DOMAIN edges' = DOMAIN edges
            /\ \A c \in EdgeCells(edges) :
                  /\ edges'[c] # NoneCell
                  /\ edges'[c].brightness = edges[c].brightness]_vars

\* a finished run of at least three steps that selected edges of equal and
\* of different brightness, one of them rejected
C21_Witness ==
    /\ pc = "done"
    /\ Len(decided) >= 3
    /\ \E i, j \in SelectedEdgeSteps :
          i < j /\ edges[decided[i]].brightness < edges[decided[j]].brightness
    /\ \E i, j \in SelectedEdgeSteps :
          i < j /\ edges[decided[i]].brightness = edges[decided[j]].brightness
    /\ \E k \in SelectedEdgeSteps : edges[decided[k]].group = None

====
